---- MODULE Spec2Model ----
(***************************************************************************)
(* The standing desk of ajesipow/standup: the HC-SR04 distance sensor      *)
(* (src/src/sensor.rs) and the desk controller that drives the motor from  *)
(* its readings (src/src/table.rs).                                        *)
(*                                                                         *)
(* Durations are counted in microseconds.  The f32 arithmetic of           *)
(* current_height is taken as exact on that grid; its division by zero     *)
(* and the saturating cast `as u8` follow IEEE-754 and Rust's cast rules.  *)
(* The program is single threaded: a call of the controller runs from one  *)
(* blocking point (an echo measurement, a sleep) to the next in one step.  *)
(***************************************************************************)
EXTENDS Integers, Sequences, FiniteSets, TLC

VARIABLES
    pc,                 \* the controller's position inside the running call
    op,                 \* the operation called last from outside
    height_cm,          \* move_to_height's argument
    current_height,     \* the local current_height of calibrate / move_to_height
    previous_height,    \* the local previous_height of calibrate
    motor,              \* the last command the motor was given
    trace,              \* what the running call did so far, in order
    mv_start,           \* length of trace when move_to_height was entered
    result,             \* what the last call returned
    calibration_data,   \* HCSR04.calibration_data
    measurement_buffer, \* HCSR04.measurement_buffer
    sensor_op,          \* the sensor operation running or run last
    sensor_arg,         \* the height handed to set_min_height / set_max_height
    sensor_ret,         \* the sensor operation's return
    pulses,             \* trigger pulses sent by the running sensor operation
    last_echo,          \* the inputs and result of the last single echo
    last_reading,       \* the latest height the running call has read, or 0
    steady              \* whether the running call's readings were all equal

vars == <<pc, op, height_cm, current_height, previous_height, motor, trace,
          mv_start, result, calibration_data, measurement_buffer, sensor_op,
          sensor_arg, sensor_ret, pulses, last_echo, last_reading, steady>>

ctlVars == <<pc, op, height_cm, current_height, previous_height, motor, trace,
             mv_start, result, last_reading, steady>>

(***************************************************************************)
(* Bounds and inputs.                                                      *)
(***************************************************************************)

\* the polling loops are unbounded: at most MaxReads readings per call
MaxReads == 5

\* the table configuration ([table] of the configuration file)
config ==
    [standing_height |-> 110, sitting_height |-> 70,
     min_table_height |-> 50, max_table_height |-> 110]

\* the calibration file read at construction
InitialCalibration ==
    [min_height |-> 60, min_height_echo |-> 3000,
     max_height |-> 120, max_height_echo |-> 9000]

\* arguments of move_to_height: below, inside and above the table's bounds
Targets == {config.min_table_height - 1, config.sitting_height - 1,
            config.sitting_height, config.max_table_height + 1}

\* arguments of set_min_height / set_max_height called from outside
SetMinHeights == {config.min_table_height}
SetMaxHeights == {config.max_table_height}

\* elapsed times the clock can show between the two waits
Elapsed == {3700, 4300, 200000}

\* start_time.elapsed() failed (the system clock was set back)
ClockError == -1

(***************************************************************************)
(* Program constants.                                                      *)
(***************************************************************************)

MEASUREMENT_BURST == 3

\* Duration::from_millis(200), the ceiling of a valid echo
ECHO_CEILING == 200000

U8_MAX == 255

\* what one single echo measurement can meet: the first wait's outcome (an
\* error, a timeout, or the level of the edge), the second wait's outcome and
\* the elapsed time read after it
EchoInputs ==
    {in \in [start : {"error", "none", "low", "high"},
             wait2 : {"error", "ok"},
             elapsed : Elapsed \cup {ClockError}] :
        \* what is never reached has no outcome: one representative
        /\ in.start = "error" => (in.wait2 = "error" /\ in.elapsed = ClockError)
        /\ in.wait2 = "error" => in.elapsed = ClockError
        \* the two valid durations differ only on a valid echo
        /\ in.start # "high" => in.elapsed # 4300}

(***************************************************************************)
(* primitives::Centimeter, a u8 newtype.                                   *)
(***************************************************************************)

\* an overflowing u8 operation wraps (release build) or panics (debug build,
\* overflow checks on): Panic marks the second outcome
Panic == -1

\* Centimeter - Centimeter: the outcomes the build can produce
CmSub(a, b) == IF a >= b THEN {a - b} ELSE {a - b + U8_MAX + 1, Panic}

\* Centimeter + Centimeter: the outcomes the build can produce
CmAdd(a, b) == IF a + b <= U8_MAX THEN {a + b} ELSE {a + b - U8_MAX - 1, Panic}

(***************************************************************************)
(* The sensor (src/src/sensor.rs).                                         *)
(***************************************************************************)

Ok(v) == [st |-> "ok", val |-> v, err |-> "none"]
Err(e) == [st |-> "err", val |-> 0, err |-> e]
Running == [st |-> "run", val |-> 0, err |-> "none"]
Panicked == [st |-> "panic", val |-> 0, err |-> "none"]
NoReturn == [st |-> "none", val |-> 0, err |-> "none"]

NoEcho == [start |-> "unset", wait2 |-> "unset", elapsed |-> 0,
           ret |-> NoReturn]

\* EchoResult with the ceiling compared by > instead of >=
EchoResultCeilingExclusive(in) ==
    IF in.start = "error" THEN Err("Gpio")
    ELSE IF in.wait2 = "error" THEN Err("Gpio")
    ELSE IF in.elapsed = ClockError THEN Err("SystemTime")
    ELSE IF in.start = "none" THEN Err("TriggerTimeout")
    ELSE IF in.start = "low" THEN Err("SpuriousLow")
    ELSE IF in.elapsed > ECHO_CEILING THEN Err("OutOfRange")
    ELSE Ok(in.elapsed)

\* measure_one_full_echo_duration: the result on the inputs `in`
EchoResult(in) ==
    IF in.start = "error" THEN Err("Gpio")
    ELSE IF in.wait2 = "error" THEN Err("Gpio")
    ELSE IF in.elapsed = ClockError THEN Err("SystemTime")
    ELSE IF in.start = "none" THEN Err("TriggerTimeout")
    ELSE IF in.start = "low" THEN Err("SpuriousLow")
    ELSE IF in.elapsed >= ECHO_CEILING THEN Err("OutOfRange")
    ELSE Ok(in.elapsed)

RECURSIVE SumSeq(_)
SumSeq(s) == IF s = <<>> THEN 0 ELSE Head(s) + SumSeq(Tail(s))

\* the average of the buffer: Duration / u32 truncates
BurstAverage(buf) == SumSeq(buf) \div MEASUREMENT_BURST

\* f32::round, half away from zero, of the fraction n / d with d > 0
RoundHalfAway(n, d) ==
    IF n >= 0 THEN (2 * n + d) \div (2 * d)
    ELSE -(((2 * (-n)) + d) \div (2 * d))

\* SaturateU8 wrapping modulo 256 like an integer cast
SaturateU8Wraps(x) == x % (U8_MAX + 1)

\* `as u8` of a finite f32: saturating
SaturateU8(x) == IF x < 0 THEN 0 ELSE IF x > U8_MAX THEN U8_MAX ELSE x

\* Interpolate normalising by max_height_echo alone
InterpolateByMaxEcho(echo, cal, dh) ==
    LET n == echo - cal.min_height_echo
        d == cal.max_height_echo
        num == n * dh + cal.min_height * d
    IN  IF d = 0
        THEN IF n > 0 /\ dh > 0 THEN U8_MAX ELSE 0
        ELSE IF d > 0 THEN SaturateU8(RoundHalfAway(num, d))
        ELSE SaturateU8(RoundHalfAway(-num, -d))

\* the interpolation of current_height with the height difference dh
Interpolate(echo, cal, dh) ==
    LET n == echo - cal.min_height_echo
        d == cal.max_height_echo - cal.min_height_echo
        \* normalized_echo * dh + min_height as the fraction num / d
        num == n * dh + cal.min_height * d
    IN  IF d = 0
        THEN \* n / 0.0 is +inf, -inf or NaN; inf * 0 is NaN; NaN as u8 is 0
             IF n > 0 /\ dh > 0 THEN U8_MAX ELSE 0
        ELSE IF d > 0 THEN SaturateU8(RoundHalfAway(num, d))
        ELSE SaturateU8(RoundHalfAway(-num, -d))

\* current_height's returns for an averaged echo (the subtraction of the two
\* calibrated heights is a Centimeter subtraction)
HeightReturns(echo, cal) ==
    {IF dh = Panic THEN Panicked ELSE Ok(Interpolate(echo, cal, dh)) :
        dh \in CmSub(cal.max_height, cal.min_height)}

\* no reading yet, and readings that differed
NoReadings == [n |-> 0, h |-> 0]
Unsteady == [n |-> 2, h |-> 0]

\* steady after one more reading v
Noted(s, v) ==
    IF s = NoReadings \/ (s.n = 1 /\ s.h = v) THEN [n |-> 1, h |-> v]
    ELSE Unsteady

TypeOK ==
    /\ pc \in {"idle", "panicked", "mv_first", "mv_up_loop", "mv_down_loop",
               "cal_up_first", "cal_up_loop", "cal_set_max", "cal_down_loop",
               "cal_set_min"}
    /\ motor \in {"none", "up", "down", "stop"}
    /\ Len(measurement_buffer) <= MEASUREMENT_BURST
    /\ pulses \in 0..MEASUREMENT_BURST
    /\ current_height \in 0..U8_MAX
    /\ previous_height \in 0..U8_MAX
    /\ sensor_ret.st \in {"none", "run", "ok", "err", "panic"}
    /\ last_reading \in 0..U8_MAX
    /\ steady \in [n : 0..2, h : 0..U8_MAX]

Init ==
    /\ pc = "idle"
    /\ op = "none"
    /\ height_cm = 0
    /\ current_height = 0
    /\ previous_height = 0
    /\ motor = "none"
    /\ trace = <<>>
    /\ mv_start = 0
    /\ result = "none"
    /\ calibration_data = InitialCalibration
    /\ measurement_buffer = <<>>
    /\ sensor_op = "none"
    /\ sensor_arg = 0
    /\ sensor_ret = NoReturn
    /\ pulses = 0
    /\ last_echo = NoEcho
    /\ last_reading = 0
    /\ steady = NoReadings

\* nothing is running: the next call from outside can be made
Idle == pc = "idle" /\ sensor_ret.st \notin {"run", "panic"}

\* SensorEnter storing the height before the burst is measured
SensorEnterStoresHeight(o, h) ==
    /\ sensor_op' = o
    /\ sensor_arg' = h
    /\ sensor_ret' = Running
    /\ measurement_buffer' = <<>>
    /\ pulses' = 0
    /\ last_echo' = NoEcho
    /\ calibration_data' =
         IF o = "set_min_height"
         THEN [calibration_data EXCEPT !.min_height = h]
         ELSE IF o = "set_max_height"
         THEN [calibration_data EXCEPT !.max_height = h]
         ELSE calibration_data

\* the entry of a sensor operation o with argument h, up to the first echo
\* (measure_burst_echo_duration clears the buffer)
SensorEnter(o, h) ==
    /\ sensor_op' = o
    /\ sensor_arg' = h
    /\ sensor_ret' = Running
    /\ measurement_buffer' = <<>>
    /\ pulses' = 0
    /\ last_echo' = NoEcho
    /\ UNCHANGED calibration_data

\* MeasureOne dropping a failed echo and going on with the burst
MeasureOneSkipsFailed ==
    /\ sensor_ret.st = "run"
    /\ Len(measurement_buffer) < MEASUREMENT_BURST
    /\ \E in \in EchoInputs :
        LET r == EchoResult(in) IN
        /\ pulses' = IF pulses < MEASUREMENT_BURST THEN pulses + 1 ELSE pulses
        /\ last_echo' = [start |-> in.start, wait2 |-> in.wait2,
                         elapsed |-> in.elapsed, ret |-> r]
        /\ measurement_buffer' =
             IF r.st = "ok" THEN Append(measurement_buffer, r.val)
             ELSE measurement_buffer
    /\ UNCHANGED <<calibration_data, sensor_op, sensor_arg, sensor_ret>>
    /\ UNCHANGED ctlVars

\* one iteration of the burst's loop: one full echo measurement; its error
\* ends the burst and the sensor operation
MeasureOne ==
    /\ sensor_ret.st = "run"
    /\ Len(measurement_buffer) < MEASUREMENT_BURST
    /\ \E in \in EchoInputs :
        LET r == EchoResult(in) IN
        /\ pulses' = pulses + 1
        /\ last_echo' = [start |-> in.start, wait2 |-> in.wait2,
                         elapsed |-> in.elapsed, ret |-> r]
        /\ IF r.st = "ok"
           THEN /\ measurement_buffer' = Append(measurement_buffer, r.val)
                /\ UNCHANGED sensor_ret
           ELSE /\ sensor_ret' = r
                /\ UNCHANGED measurement_buffer
    /\ UNCHANGED <<calibration_data, sensor_op, sensor_arg>>
    /\ UNCHANGED ctlVars

\* the burst is complete
BurstDone == sensor_ret.st = "run" /\ Len(measurement_buffer) = MEASUREMENT_BURST

\* current_height after its burst: the interpolation
CurrentHeightReturn ==
    /\ BurstDone
    /\ sensor_op = "current_height"
    /\ sensor_ret' \in HeightReturns(BurstAverage(measurement_buffer), calibration_data)
    /\ UNCHANGED <<calibration_data, measurement_buffer, sensor_op, sensor_arg,
                   pulses, last_echo>>
    /\ UNCHANGED ctlVars

\* SetMinHeightReturn storing the echo in the max anchor
SetMinHeightReturnWritesMaxEcho ==
    /\ BurstDone
    /\ sensor_op = "set_min_height"
    /\ calibration_data' =
         [calibration_data EXCEPT
            !.max_height_echo = BurstAverage(measurement_buffer),
            !.min_height = sensor_arg]
    /\ sensor_ret' = Ok(0)
    /\ UNCHANGED <<measurement_buffer, sensor_op, sensor_arg, pulses, last_echo>>
    /\ UNCHANGED ctlVars

\* set_min_height after its burst
SetMinHeightReturn ==
    /\ BurstDone
    /\ sensor_op = "set_min_height"
    /\ calibration_data' =
         [calibration_data EXCEPT
            !.min_height_echo = BurstAverage(measurement_buffer),
            !.min_height = sensor_arg]
    /\ sensor_ret' = Ok(0)
    /\ UNCHANGED <<measurement_buffer, sensor_op, sensor_arg, pulses, last_echo>>
    /\ UNCHANGED ctlVars

\* set_max_height after its burst
SetMaxHeightReturn ==
    /\ BurstDone
    /\ sensor_op = "set_max_height"
    /\ calibration_data' =
         [calibration_data EXCEPT
            !.max_height_echo = BurstAverage(measurement_buffer),
            !.max_height = sensor_arg]
    /\ sensor_ret' = Ok(0)
    /\ UNCHANGED <<measurement_buffer, sensor_op, sensor_arg, pulses, last_echo>>
    /\ UNCHANGED ctlVars

\* a sensor operation called from outside the controller
CallSensor(o, h) ==
    /\ Idle
    /\ op' = o
    /\ result' = "none"
    /\ trace' = <<>>
    /\ mv_start' = 0
    /\ height_cm' = 0
    /\ current_height' = 0
    /\ previous_height' = 0
    /\ last_reading' = 0
    /\ steady' = NoReadings
    /\ SensorEnter(o, h)
    /\ UNCHANGED <<pc, motor>>

CallCurrentHeight == CallSensor("current_height", 0)
CallSetMinHeight == \E h \in SetMinHeights : CallSensor("set_min_height", h)
CallSetMaxHeight == \E h \in SetMaxHeights : CallSensor("set_max_height", h)

(***************************************************************************)
(* The controller (src/src/table.rs).  current_height and previous_height  *)
(* are the locals of the function that runs, 0 when they are not set.      *)
(***************************************************************************)

sensorVars == <<calibration_data, measurement_buffer, sensor_op, sensor_arg,
                sensor_ret, pulses, last_echo>>

\* readings taken so far by the running call
Reads(tr) == Cardinality({i \in 1..Len(tr) : tr[i] = "read"})

\* the last motor command of cmds, or the motor's state when there is none
LastCommand(cmds) == IF cmds = <<>> THEN motor ELSE cmds[Len(cmds)]

\* the motor commands cmds are issued, then self.sensor.get_current_height()
\* is called, and the controller waits for it at position p
ReadHeight(cmds, p) ==
    /\ Reads(trace) < MaxReads
    /\ trace' = Append(trace \o cmds, "read")
    /\ motor' = LastCommand(cmds)
    /\ pc' = p
    /\ result' = "none"
    /\ SensorEnter("current_height", 0)

\* the motor commands cmds are issued, then the sensor's set_min_height or
\* set_max_height (o) is called with h, and the controller waits at p
SetHeight(cmds, o, h, p) ==
    /\ trace' = Append(trace \o cmds, o)
    /\ motor' = LastCommand(cmds)
    /\ pc' = p
    /\ result' = "none"
    /\ SensorEnter(o, h)

\* the controller takes the return of get_current_height(): the reading is
\* noted when there is one; a call that ends keeps no latest reading
Observe ==
    LET read == sensor_op = "current_height" /\ sensor_ret.st = "ok" IN
    /\ steady' = IF read THEN Noted(steady, sensor_ret.val) ELSE steady
    /\ last_reading' = IF pc' \in {"idle", "panicked"} THEN 0
                       ELSE IF read THEN sensor_ret.val
                       ELSE last_reading

\* the sensor operation the controller waits for at position p has returned
Returned(p) == pc = p /\ sensor_ret.st \in {"ok", "err", "panic"}

\* the running call ends with r after issuing the motor commands cmds
Finish(r, cmds) ==
    /\ result' = r
    /\ pc' = IF r = "Panic" THEN "panicked" ELSE "idle"
    /\ trace' = trace \o cmds
    /\ motor' = LastCommand(cmds)
    /\ current_height' = 0
    /\ previous_height' = 0
    /\ UNCHANGED <<op, height_cm, mv_start>>
    /\ UNCHANGED sensorVars

\* Propagate stopping the motor before it returns the error
PropagateStops ==
    /\ sensor_ret.st \in {"err", "panic"}
    /\ Finish(IF sensor_ret.st = "err" THEN sensor_ret.err ELSE "Panic",
              <<"stop">>)

\* Propagate taking the reading again instead of returning the error
PropagateRetries ==
    /\ sensor_ret.st = "err"
    /\ Reads(trace) < MaxReads
    /\ trace' = Append(trace, "read")
    /\ SensorEnter(sensor_op, sensor_arg)
    /\ UNCHANGED <<pc, op, height_cm, current_height, previous_height,
                   motor, mv_start, result>>

\* the `?` on a failed sensor operation: the call returns the error and does
\* nothing else; a panic inside the sensor unwinds the same way
Propagate ==
    /\ sensor_ret.st \in {"err", "panic"}
    /\ Finish(IF sensor_ret.st = "err" THEN sensor_ret.err ELSE "Panic", <<>>)

\* BoundsError without the check against min_table_height
BoundsErrorNoLower(t) ==
    IF t > config.max_table_height THEN "ExceedsMax" ELSE "none"

\* the bounds check of move_to_height: the error, or "none"
BoundsError(t) ==
    IF t > config.max_table_height THEN "ExceedsMax"
    ELSE IF t < config.min_table_height THEN "BelowMin"
    ELSE "none"

\* move_to_height(t) up to its first reading; tr is the trace up to the call
EnterMoveToHeight(t, tr) ==
    /\ height_cm' = t
    /\ mv_start' = Len(tr)
    /\ current_height' = 0
    /\ previous_height' = 0
    /\ IF BoundsError(t) # "none"
       THEN /\ result' = BoundsError(t)
            /\ pc' = "idle"
            /\ trace' = tr
            /\ UNCHANGED motor
            /\ UNCHANGED sensorVars
       ELSE /\ Reads(tr) < MaxReads
            /\ trace' = Append(tr, "read")
            /\ pc' = "mv_first"
            /\ result' = "none"
            /\ UNCHANGED motor
            /\ SensorEnter("current_height", 0)

\* a call from outside starts with nothing done
CallMove(o, t) ==
    /\ Idle
    /\ op' = o
    /\ last_reading' = 0
    /\ steady' = NoReadings
    /\ EnterMoveToHeight(t, <<>>)

MoveToHeight == \E t \in Targets : CallMove("move_to_height", t)
MoveToStanding == CallMove("move_to_standing", config.standing_height)
MoveToSitting == CallMove("move_to_sitting", config.sitting_height)

\* WithinTolerance with < for <=
WithinToleranceStrict(t, h) ==
    UNION {IF lo = Panic THEN {Panic}
           ELSE IF ~(lo < h) THEN {0}
           ELSE {IF hi = Panic THEN Panic ELSE IF h < hi THEN 1 ELSE 0 :
                    hi \in CmAdd(t, 1)} :
              lo \in CmSub(t, 1)}

\* the tolerance band: the outcomes of
\*   height_cm - 1 <= current_height && current_height <= height_cm + 1
\* (1 for true, 0 for false, or Panic; && evaluates its right side only when
\* its left side holds)
WithinTolerance(t, h) ==
    UNION {IF lo = Panic THEN {Panic}
           ELSE IF ~(lo <= h) THEN {0}
           ELSE {IF hi = Panic THEN Panic ELSE IF h <= hi THEN 1 ELSE 0 :
                    hi \in CmAdd(t, 1)} :
              lo \in CmSub(t, 1)}

\* the first reading sends the desk up: current_height < height_cm
GoesUp(h, t) == h < t

\* the first reading sends the desk down: current_height > height_cm
GoesDown(h, t) == h > t

\* UpLoopContinues leaving the loop once the reading is inside the band
UpLoopContinuesToBand(h, t) == h < t - 1

\* the up loop goes on: get_current_height()? < height_cm
UpLoopContinues(h, t) == h < t

\* DownLoopContinues with >= for >
DownLoopContinuesInclusive(h, t) == h >= t

\* the down loop goes on: get_current_height()? > height_cm
DownLoopContinues(h, t) == h > t

\* move_to_height from its first reading to the motor command
MvFirst ==
    /\ Returned("mv_first")
    /\ \/ Propagate
       \/ /\ sensor_ret.st = "ok"
          /\ \E w \in WithinTolerance(height_cm, sensor_ret.val) :
               IF w = Panic THEN Finish("Panic", <<>>)
               ELSE IF w = 1 THEN Finish("Ok", <<>>)
               ELSE IF GoesUp(sensor_ret.val, height_cm)
               THEN /\ ReadHeight(<<"up">>, "mv_up_loop")
                    /\ current_height' = sensor_ret.val
                    /\ UNCHANGED <<op, height_cm, mv_start, previous_height>>
               ELSE IF GoesDown(sensor_ret.val, height_cm)
               THEN /\ ReadHeight(<<"down">>, "mv_down_loop")
                    /\ current_height' = sensor_ret.val
                    /\ UNCHANGED <<op, height_cm, mv_start, previous_height>>
               ELSE Finish("Ok", <<>>)
    /\ Observe

\* MvUpLoop choosing the direction again from the reading that ended the loop
MvUpLoopChoosesAgain ==
    /\ Returned("mv_up_loop")
    /\ \/ Propagate
       \/ /\ sensor_ret.st = "ok"
          /\ IF UpLoopContinues(sensor_ret.val, height_cm)
             THEN /\ ReadHeight(<<>>, "mv_up_loop")
                  /\ UNCHANGED <<op, height_cm, mv_start, current_height,
                                 previous_height>>
             ELSE IF GoesDown(sensor_ret.val, height_cm)
             THEN /\ ReadHeight(<<"stop", "down">>, "mv_down_loop")
                  /\ UNCHANGED <<op, height_cm, mv_start, current_height,
                                 previous_height>>
             ELSE Finish("Ok", <<"stop">>)
    /\ Observe

\* one reading of the up loop of move_to_height, and what follows the loop
MvUpLoop ==
    /\ Returned("mv_up_loop")
    /\ \/ Propagate
       \/ /\ sensor_ret.st = "ok"
          /\ IF UpLoopContinues(sensor_ret.val, height_cm)
             THEN /\ ReadHeight(<<>>, "mv_up_loop")
                  /\ UNCHANGED <<op, height_cm, mv_start, current_height,
                                 previous_height>>
             ELSE IF GoesDown(current_height, height_cm)
             THEN /\ ReadHeight(<<"stop", "down">>, "mv_down_loop")
                  /\ UNCHANGED <<op, height_cm, mv_start, current_height,
                                 previous_height>>
             ELSE Finish("Ok", <<"stop">>)
    /\ Observe

\* MvDownLoop returning without the stop
MvDownLoopKeepsRunning ==
    /\ Returned("mv_down_loop")
    /\ \/ Propagate
       \/ /\ sensor_ret.st = "ok"
          /\ IF DownLoopContinues(sensor_ret.val, height_cm)
             THEN /\ ReadHeight(<<>>, "mv_down_loop")
                  /\ UNCHANGED <<op, height_cm, mv_start, current_height,
                                 previous_height>>
             ELSE Finish("Ok", <<>>)
    /\ Observe

\* one reading of the down loop of move_to_height
MvDownLoop ==
    /\ Returned("mv_down_loop")
    /\ \/ Propagate
       \/ /\ sensor_ret.st = "ok"
          /\ IF DownLoopContinues(sensor_ret.val, height_cm)
             THEN /\ ReadHeight(<<>>, "mv_down_loop")
                  /\ UNCHANGED <<op, height_cm, mv_start, current_height,
                                 previous_height>>
             ELSE Finish("Ok", <<"stop">>)
    /\ Observe

\* calibrate up to its first reading
Calibrate ==
    /\ Idle
    /\ op' = "calibrate"
    /\ height_cm' = 0
    /\ mv_start' = 0
    /\ current_height' = 0
    /\ previous_height' = 0
    /\ trace' = <<"up", "read">>
    /\ motor' = "up"
    /\ pc' = "cal_up_first"
    /\ result' = "none"
    /\ last_reading' = 0
    /\ steady' = NoReadings
    /\ SensorEnter("current_height", 0)

\* CalUpContinues going on while the reading has not dropped
CalUpContinuesOnEqual(prev, cur) == prev <= cur

\* the up loop goes on: previous_height < current_height
CalUpContinues(prev, cur) == prev < cur

\* CalDownContinues going on while the reading has not risen
CalDownContinuesOnEqual(prev, cur) == prev >= cur

\* the down loop goes on: previous_height > current_height
CalDownContinues(prev, cur) == prev > cur

\* a calibration loop's body is entered with the reading cur and runs to its
\* reading, after the motor commands cmds
CalLoopBody(cmds, cur, p) ==
    /\ previous_height' = cur
    /\ current_height' = cur
    /\ ReadHeight(cmds, p)
    /\ UNCHANGED <<op, height_cm, mv_start>>

\* CalUpDone without the stop
CalUpDoneKeepsRunning(prev, cur) ==
    /\ previous_height' = prev
    /\ current_height' = cur
    /\ SetHeight(<<>>, "set_max_height", config.max_table_height, "cal_set_max")
    /\ UNCHANGED <<op, height_cm, mv_start>>

\* the up loop is left with the readings prev and cur
CalUpDone(prev, cur) ==
    /\ previous_height' = prev
    /\ current_height' = cur
    /\ SetHeight(<<"stop">>, "set_max_height", config.max_table_height,
                 "cal_set_max")
    /\ UNCHANGED <<op, height_cm, mv_start>>

\* the down loop is left with the readings prev and cur, after the motor
\* commands cmds
CalDownDone(cmds, prev, cur) ==
    /\ previous_height' = prev
    /\ current_height' = cur
    /\ SetHeight(cmds \o <<"stop">>, "set_min_height", config.min_table_height,
                 "cal_set_min")
    /\ UNCHANGED <<op, height_cm, mv_start>>

\* calibrate from its first reading into the up loop (or past it)
CalUpFirst ==
    /\ Returned("cal_up_first")
    /\ \/ Propagate
       \/ /\ sensor_ret.st = "ok"
          /\ \E prev \in CmSub(sensor_ret.val, 1) :
               IF prev = Panic THEN Finish("Panic", <<>>)
               ELSE IF CalUpContinues(prev, sensor_ret.val)
               THEN CalLoopBody(<<>>, sensor_ret.val, "cal_up_loop")
               ELSE CalUpDone(prev, sensor_ret.val)
    /\ Observe

\* one reading of calibrate's up loop
CalUpLoop ==
    /\ Returned("cal_up_loop")
    /\ \/ Propagate
       \/ /\ sensor_ret.st = "ok"
          /\ IF CalUpContinues(previous_height, sensor_ret.val)
             THEN CalLoopBody(<<>>, sensor_ret.val, "cal_up_loop")
             ELSE CalUpDone(previous_height, sensor_ret.val)
    /\ Observe

\* calibrate from set_max_height's return into the down loop (or past it)
CalSetMax ==
    /\ Returned("cal_set_max")
    /\ \/ Propagate
       \/ /\ sensor_ret.st = "ok"
          /\ \E prev \in CmAdd(current_height, 1) :
               IF prev = Panic THEN Finish("Panic", <<"down">>)
               ELSE IF CalDownContinues(prev, current_height)
               THEN CalLoopBody(<<"down">>, current_height, "cal_down_loop")
               ELSE CalDownDone(<<"down">>, prev, current_height)
    /\ Observe

\* one reading of calibrate's down loop
CalDownLoop ==
    /\ Returned("cal_down_loop")
    /\ \/ Propagate
       \/ /\ sensor_ret.st = "ok"
          /\ IF CalDownContinues(previous_height, sensor_ret.val)
             THEN CalLoopBody(<<>>, sensor_ret.val, "cal_down_loop")
             ELSE CalDownDone(<<>>, previous_height, sensor_ret.val)
    /\ Observe

\* calibrate from set_min_height's return into move_to_sitting
CalSetMin ==
    /\ Returned("cal_set_min")
    /\ \/ Propagate
       \/ /\ sensor_ret.st = "ok"
          /\ UNCHANGED op
          /\ EnterMoveToHeight(config.sitting_height,
                               Append(trace, "move_to_sitting"))
    /\ Observe

(***************************************************************************)
(* Properties.                                                             *)
(***************************************************************************)

\* move_to_height was entered by the last call
MoveEntered ==
    \/ op \in {"move_to_height", "move_to_standing", "move_to_sitting"}
    \/ op = "calibrate" /\ mv_start > 0

\* what move_to_height did since it was entered
MoveTrace == SubSeq(trace, mv_start + 1, Len(trace))

MotorCommands == {"up", "down", "stop"}

Count(tr, e) == Cardinality({i \in 1..Len(tr) : tr[i] = e})

\* the first reading of move_to_height has returned and is not yet acted on
FirstReading == pc = "mv_first" /\ sensor_ret.st = "ok"

InBand(h, t) == t - 1 <= h /\ h <= t + 1

\* C1: move_to_height with a target above max_table_height returns the
\* exceeds-max error, with a target below min_table_height the below-min
\* error, and in that call it commands the motor not at all and takes no
\* reading.
C1_OutOfBoundsFailsFirst ==
    (MoveEntered /\ (height_cm > config.max_table_height
                     \/ height_cm < config.min_table_height))
    => /\ pc = "idle"
       /\ result = IF height_cm > config.max_table_height
                   THEN "ExceedsMax" ELSE "BelowMin"
       /\ MoveTrace = <<>>

C1_Witness ==
    /\ op = "move_to_height"
    /\ height_cm > config.max_table_height
    /\ result = "ExceedsMax"
    /\ motor = "up"

\* C2: when the first reading of move_to_height lies in the inclusive band
\* target - 1 .. target + 1, the call returns success with no motor command
\* and exactly one reading.
C2_InBandReturnsWithoutMoving ==
    [][(FirstReading /\ InBand(sensor_ret.val, height_cm))
       => /\ result' = "Ok"
          /\ pc' = "idle"
          /\ MoveTrace' = <<"read">>
          /\ motor' = motor]_vars

C2_Witness ==
    /\ op = "move_to_height"
    /\ result = "Ok"
    /\ MoveTrace = <<"read">>
    /\ sensor_ret.val = height_cm + 1

\* C3: a first reading outside the band and below the target commands the
\* motor up once and re-reads; every re-read below the target is followed by
\* another reading and no motor command, and the first re-read not below the
\* target by stop and a successful return.  Above the target the same holds
\* with down and re-reads above the target.
C3_StopAtFirstReadingPastTarget ==
    [][/\ (/\ FirstReading
           /\ ~InBand(sensor_ret.val, height_cm)
           /\ sensor_ret.val < height_cm)
          => (MoveTrace' = <<"read", "up", "read">> /\ pc' = "mv_up_loop")
       /\ (/\ FirstReading
           /\ ~InBand(sensor_ret.val, height_cm)
           /\ sensor_ret.val > height_cm)
          => (MoveTrace' = <<"read", "down", "read">> /\ pc' = "mv_down_loop")
       /\ (pc = "mv_up_loop" /\ sensor_ret.st = "ok")
          => IF sensor_ret.val < height_cm
             THEN trace' = Append(trace, "read") /\ pc' = pc /\ motor' = "up"
             ELSE /\ trace' = Append(trace, "stop")
                  /\ motor' = "stop" /\ pc' = "idle" /\ result' = "Ok"
       /\ (pc = "mv_down_loop" /\ sensor_ret.st = "ok")
          => IF sensor_ret.val > height_cm
             THEN trace' = Append(trace, "read") /\ pc' = pc /\ motor' = "down"
             ELSE /\ trace' = Append(trace, "stop")
                  /\ motor' = "stop" /\ pc' = "idle" /\ result' = "Ok"]_vars

C3_Witness ==
    /\ op = "move_to_height"
    /\ result = "Ok"
    /\ MoveTrace = <<"read", "down", "read", "read", "stop">>
    /\ sensor_ret.val = height_cm

Errors == {"Gpio", "SystemTime", "TriggerTimeout", "SpuriousLow", "OutOfRange"}

\* C4: a reading that fails in a polling loop of move_to_height ends the call
\* with that error: no other reading is taken, no motor command is issued,
\* and the motor stays in the direction the call gave it.
C4_LoopErrorLeavesMotorRunning ==
    [][(pc \in {"mv_up_loop", "mv_down_loop"} /\ sensor_ret.st = "err")
       => /\ result' = sensor_ret.err
          /\ pc' = "idle"
          /\ trace' = trace
          /\ pulses' = pulses
          /\ motor' = motor
          /\ motor = IF pc = "mv_up_loop" THEN "up" ELSE "down"]_vars

C4_Witness ==
    /\ op = "move_to_standing"
    /\ result = "OutOfRange"
    /\ MoveTrace = <<"read", "up", "read", "read">>
    /\ motor = "up"
    /\ pc = "idle"

\* what move_to_height does when it succeeds: one reading, and when the desk
\* has to move one direction, the re-reads and stop
MovePattern(tr) ==
    \/ tr = <<"read">>
    \/ /\ Len(tr) >= 4
       /\ tr[1] = "read"
       /\ tr[2] \in {"up", "down"}
       /\ \A k \in 3..(Len(tr) - 1) : tr[k] = "read"
       /\ tr[Len(tr)] = "stop"

\* calibrate's steps in order, the stops at positions i and j of the trace
CalibratePattern(tr, i, j) ==
    /\ 3 <= i /\ i + 3 <= j /\ j + 2 <= Len(tr)
    /\ tr[1] = "up"
    /\ \A k \in 2..(i - 1) : tr[k] = "read"
    /\ tr[i] = "stop"
    /\ tr[i + 1] = "set_max_height"
    /\ tr[i + 2] = "down"
    /\ \A k \in (i + 3)..(j - 1) : tr[k] = "read"
    /\ tr[j] = "stop"
    /\ tr[j + 1] = "set_min_height"
    /\ tr[j + 2] = "move_to_sitting"
    /\ MovePattern(SubSeq(tr, j + 3, Len(tr)))

\* C5: a successful calibrate did, in this order: motor up, readings, motor
\* stop, set_max_height, motor down, readings, motor stop, set_min_height,
\* move_to_sitting; set_max_height and set_min_height were called once each,
\* with max_table_height and min_table_height.
C5_CalibrateOrder ==
    (op = "calibrate" /\ result = "Ok")
    => /\ \E i, j \in 1..Len(trace) : CalibratePattern(trace, i, j)
       /\ Count(trace, "set_max_height") = 1
       /\ Count(trace, "set_min_height") = 1
       /\ calibration_data.max_height = config.max_table_height
       /\ calibration_data.min_height = config.min_table_height
       /\ motor = "stop"

C5_Witness ==
    /\ op = "calibrate"
    /\ result = "Ok"
    /\ Count(trace, "read") = MaxReads
    /\ Count(trace, "stop") = 3

\* the last motor command of calibrate where it waits for the sensor
CalibrateMotorAt(p) ==
    IF p \in {"cal_up_first", "cal_up_loop"} THEN "up"
    ELSE IF p = "cal_down_loop" THEN "down"
    ELSE "stop"

\* C6: a sensor operation that fails in calibrate (a reading of the up or
\* down phase, the burst of set_max_height or set_min_height) ends calibrate
\* with that error and nothing else is done: no motor command, no sensor
\* call, no change of the calibration; the motor keeps its last command, up
\* in the up phase and down in the down phase.
C6_CalibrateErrorAborts ==
    [][(/\ pc \in {"cal_up_first", "cal_up_loop", "cal_set_max",
                   "cal_down_loop", "cal_set_min"}
        /\ sensor_ret.st = "err")
       => /\ result' = sensor_ret.err
          /\ pc' = "idle"
          /\ trace' = trace
          /\ motor' = motor
          /\ motor = CalibrateMotorAt(pc)
          /\ UNCHANGED <<calibration_data, sensor_op, pulses>>]_vars

C6_Witness ==
    /\ op = "calibrate"
    /\ result = "TriggerTimeout"
    /\ motor = "down"
    /\ trace[Len(trace)] = "read"
    /\ Count(trace, "set_max_height") = 1
    /\ pc = "idle"

\* C7: a burst succeeds only with MEASUREMENT_BURST successful echoes; when
\* the k-th echo fails the sensor operation returns that echo's error with
\* k trigger pulses sent and k - 1 durations buffered, and sends no pulse
\* more; no height comes out of it.
C7_BurstFailsOnFirstFailedEcho ==
    /\ sensor_ret.st = "ok"
       => /\ Len(measurement_buffer) = MEASUREMENT_BURST
          /\ pulses = MEASUREMENT_BURST
    /\ sensor_ret.st = "run" => pulses = Len(measurement_buffer)
    /\ sensor_ret.st = "err"
       => /\ sensor_ret = last_echo.ret
          /\ sensor_ret.err \in Errors
          /\ pulses = Len(measurement_buffer) + 1
          /\ pulses <= MEASUREMENT_BURST
          /\ sensor_ret.val = 0

C7_Witness ==
    /\ sensor_op = "current_height"
    /\ sensor_ret.st = "err"
    /\ sensor_ret.err = "SpuriousLow"
    /\ pulses = 2
    /\ Len(measurement_buffer) = 1

\* C8 as stated: a duration is returned only for a first edge to high and an
\* elapsed time below 200 ms; a first wait that timed out gives the
\* trigger-timeout error, a first edge to low the spurious-low error, a first
\* edge to high with 200 ms or more the out-of-range error.
C8_EchoOutcomes ==
    /\ last_echo.ret.st = "ok"
       => /\ last_echo.start = "high"
          /\ last_echo.elapsed < ECHO_CEILING
          /\ last_echo.ret.val = last_echo.elapsed
    /\ last_echo.start = "none" => last_echo.ret = Err("TriggerTimeout")
    /\ last_echo.start = "low" => last_echo.ret = Err("SpuriousLow")
    /\ (last_echo.start = "high" /\ last_echo.elapsed >= ECHO_CEILING)
       => last_echo.ret = Err("OutOfRange")

\* the second wait and the clock read of the last echo did not fail
SecondWaitAndClockOk ==
    last_echo.wait2 = "ok" /\ last_echo.elapsed # ClockError

\* C8, amended: the three errors are returned when the second wait and the
\* reading of the clock succeed; when one of them fails, its error is
\* returned, whatever the first wait saw.
C8_EchoOutcomesAmended ==
    /\ last_echo.ret.st = "ok"
       => /\ last_echo.start = "high"
          /\ last_echo.elapsed < ECHO_CEILING
          /\ last_echo.elapsed >= 0
          /\ last_echo.ret.val = last_echo.elapsed
    /\ SecondWaitAndClockOk
       => /\ last_echo.start = "none" => last_echo.ret = Err("TriggerTimeout")
          /\ last_echo.start = "low" => last_echo.ret = Err("SpuriousLow")
          /\ (last_echo.start = "high" /\ last_echo.elapsed >= ECHO_CEILING)
             => last_echo.ret = Err("OutOfRange")
          /\ (last_echo.start = "high" /\ last_echo.elapsed < ECHO_CEILING)
             => last_echo.ret = Ok(last_echo.elapsed)
    /\ (last_echo.start \in {"none", "low", "high"} /\ last_echo.wait2 = "error")
       => last_echo.ret = Err("Gpio")
    /\ (/\ last_echo.start \in {"none", "low", "high"}
        /\ last_echo.wait2 = "ok"
        /\ last_echo.elapsed = ClockError)
       => last_echo.ret = Err("SystemTime")

C8_Witness ==
    /\ last_echo.start = "none"
    /\ last_echo.wait2 = "ok"
    /\ last_echo.elapsed >= ECHO_CEILING
    /\ sensor_ret = Err("TriggerTimeout")

\* the calibration's two echo anchors are equal
Degenerate == calibration_data.min_height_echo = calibration_data.max_height_echo

\* C9 as stated: with min_height_echo = max_height_echo, current_height never
\* returns a height.
C9_DegenerateCalibrationFails ==
    (sensor_op = "current_height" /\ Degenerate) => sensor_ret.st # "ok"

\* C10: with max_height > min_height and different echo anchors, a burst
\* average equal to min_height_echo gives min_height and one equal to
\* max_height_echo gives max_height.
C10_AnchorsMapToHeights ==
    (/\ sensor_op = "current_height"
     /\ sensor_ret.st = "ok"
     /\ calibration_data.max_height > calibration_data.min_height
     /\ ~Degenerate)
    => /\ BurstAverage(measurement_buffer) = calibration_data.min_height_echo
          => sensor_ret.val = calibration_data.min_height
       /\ BurstAverage(measurement_buffer) = calibration_data.max_height_echo
          => sensor_ret.val = calibration_data.max_height

C10_Witness ==
    /\ sensor_op = "current_height"
    /\ sensor_ret.st = "ok"
    /\ ~Degenerate
    /\ calibration_data.max_height_echo < calibration_data.min_height_echo
    /\ BurstAverage(measurement_buffer) = calibration_data.max_height_echo
    /\ sensor_ret.val = calibration_data.max_height

\* the averages a burst of valid echoes can have
Averages ==
    {BurstAverage(<<a, b, c>>) :
        a, b, c \in {e \in Elapsed : EchoResult([start |-> "high",
                                                  wait2 |-> "ok",
                                                  elapsed |-> e]).st = "ok"}}

\* C11: with max_height > min_height, the height current_height returns does
\* not decrease when the averaged echo grows if max_height_echo >
\* min_height_echo, and does not increase when it grows if max_height_echo <
\* min_height_echo: the returned height is compared with the height of every
\* other average under the same calibration.
C11_HeightMonotoneInEcho ==
    (/\ sensor_op = "current_height"
     /\ sensor_ret.st = "ok"
     /\ calibration_data.max_height > calibration_data.min_height
     /\ ~Degenerate)
    => LET avg == BurstAverage(measurement_buffer)
           rising == calibration_data.max_height_echo
                       > calibration_data.min_height_echo
       IN  \A a \in Averages :
             \A r \in HeightReturns(a, calibration_data) :
               r.st = "ok" =>
                 /\ (IF rising THEN a <= avg ELSE a >= avg)
                      => r.val <= sensor_ret.val
                 /\ (IF rising THEN a >= avg ELSE a <= avg)
                      => r.val >= sensor_ret.val

\* a reading between a shorter echo that saturates at 0 and a longer echo
\* that maps higher
C11_Witness ==
    /\ sensor_op = "current_height"
    /\ sensor_ret.st = "ok"
    /\ calibration_data.max_height_echo > calibration_data.min_height_echo
    /\ sensor_ret.val > 0
    /\ \E a, b \in Averages :
         /\ a < BurstAverage(measurement_buffer)
         /\ b > BurstAverage(measurement_buffer)
         /\ Ok(0) \in HeightReturns(a, calibration_data)
         /\ \E r \in HeightReturns(b, calibration_data) :
              r.st = "ok" /\ r.val > sensor_ret.val

\* C12: a set_min_height(h) that returns successfully sets min_height to h and
\* min_height_echo to the average of the three echoes measured by this call,
\* and leaves max_height and max_height_echo as they were; set_max_height(h)
\* does the same to the max fields and leaves the min fields.
C12_SetHeightWritesOneAnchor ==
    [][(/\ sensor_op \in {"set_min_height", "set_max_height"}
        /\ sensor_ret.st = "run"
        /\ sensor_ret'.st = "ok")
       => /\ pulses = MEASUREMENT_BURST
          /\ Len(measurement_buffer) = MEASUREMENT_BURST
          /\ calibration_data' =
               IF sensor_op = "set_min_height"
               THEN [min_height |-> sensor_arg,
                     min_height_echo |-> BurstAverage(measurement_buffer),
                     max_height |-> calibration_data.max_height,
                     max_height_echo |-> calibration_data.max_height_echo]
               ELSE [min_height |-> calibration_data.min_height,
                     min_height_echo |-> calibration_data.min_height_echo,
                     max_height |-> sensor_arg,
                     max_height_echo |-> BurstAverage(measurement_buffer)]]_vars

\* set_min_height has returned on the calibration read at construction
C12_Witness ==
    /\ op = "set_min_height"
    /\ sensor_ret.st = "ok"
    /\ calibration_data.min_height = config.min_table_height
    /\ calibration_data.min_height # InitialCalibration.min_height
    /\ calibration_data.min_height_echo = BurstAverage(measurement_buffer)
    /\ calibration_data.max_height = InitialCalibration.max_height
    /\ calibration_data.max_height_echo = InitialCalibration.max_height_echo

\* C13 as stated: in every reachable state max_height > min_height and
\* min_height_echo differs from max_height_echo.
C13_CalibrationStaysValid ==
    /\ calibration_data.max_height > calibration_data.min_height
    /\ calibration_data.min_height_echo # calibration_data.max_height_echo

\* C14 as stated: when every reading of a calibrate call returned the same
\* height and no reading failed, the call does not return.
C14_ConstantReadingHangs ==
    (op = "calibrate" /\ steady.n = 1) => ~(pc = "idle" /\ result = "Ok")

\* the place of the first e in tr, or one past the end of tr
Position(tr, e) ==
    IF \E i \in 1..Len(tr) : tr[i] = e
    THEN CHOOSE i \in 1..Len(tr) : tr[i] = e /\ \A j \in 1..(i - 1) : tr[j] # e
    ELSE Len(tr) + 1

\* the readings of calibrate's up phase and of its down phase
UpPhaseReads ==
    Count(SubSeq(trace, 1, Position(trace, "set_max_height") - 1), "read")
DownPhaseReads ==
    Count(SubSeq(trace, Position(trace, "set_max_height") + 1,
                 Position(trace, "set_min_height") - 1), "read")

\* C14 amended: when every reading of a calibrate call returned the same
\* height, neither detection loop hangs: the up phase takes at most two
\* readings and the down phase at most one, and calibrate goes on to
\* move_to_sitting; it returns success only if that height is within 1 cm of
\* sitting_height, and otherwise stays in move_to_sitting's polling loop with
\* the motor running and no stop issued.
C14_ConstantReadingEndsLoops ==
    (op = "calibrate" /\ steady.n = 1)
    => /\ UpPhaseReads <= 2
       /\ DownPhaseReads <= 1
       /\ (pc = "idle" /\ result = "Ok")
            => InBand(steady.h, config.sitting_height)
       /\ pc \in {"mv_up_loop", "mv_down_loop"}
            => /\ ~InBand(steady.h, config.sitting_height)
               /\ Count(MoveTrace, "stop") = 0
               /\ motor = (IF pc = "mv_up_loop" THEN "up" ELSE "down")

\* calibrate has returned success on a constant reading
C14_Witness ==
    /\ op = "calibrate"
    /\ steady.n = 1
    /\ pc = "idle"
    /\ result = "Ok"
    /\ trace = <<"up", "read", "read", "stop", "set_max_height", "down",
                 "read", "stop", "set_min_height", "move_to_sitting", "read">>

\* move_to_height commanded at most one of up and down since it was entered
OneDirection ==
    MoveEntered => Count(MoveTrace, "up") + Count(MoveTrace, "down") <= 1

\* C15: within one move_to_height call the direction is chosen once: the call
\* issues at most one of up and down, and when the reading that ends its loop
\* is past the tolerance band on the other side of the target, it still
\* issues stop and returns success, with no movement back.
C15_DirectionChosenOnce ==
    [][/\ OneDirection
       /\ OneDirection'
       /\ (/\ sensor_ret.st = "ok"
           /\ \/ pc = "mv_up_loop" /\ sensor_ret.val > height_cm + 1
              \/ pc = "mv_down_loop" /\ sensor_ret.val < height_cm - 1)
          => /\ trace' = Append(trace, "stop")
             /\ motor' = "stop"
             /\ result' = "Ok"
             /\ pc' = "idle"]_vars

\* the desk went up from below the band and was stopped above it
C15_Witness ==
    /\ MoveEntered
    /\ pc = "idle"
    /\ result = "Ok"
    /\ Count(MoveTrace, "up") = 1
    /\ Count(MoveTrace, "down") = 0
    /\ MoveTrace[Len(MoveTrace)] = "stop"
    /\ sensor_ret.st = "ok"
    /\ sensor_ret.val > height_cm + 1

\* calibrate's detection loops: the step issues the stop that ends the up
\* phase (k = 0) or the down phase (k = 1)
PhaseStopped(k) ==
    /\ op = "calibrate"
    /\ mv_start = 0
    /\ Count(trace, "stop") = k
    /\ Count(trace', "stop") = k + 1

\* C16 as stated: in calibrate's up phase the loop goes on exactly while each
\* new reading is strictly greater than the reading before it, and the motor
\* is stopped at the first reading that is not; in the down phase the same
\* with strictly less.
C16_LoopsFollowReadings ==
    [][/\ (pc = "cal_up_loop" /\ sensor_ret.st = "ok")
          => IF sensor_ret.val > last_reading
             THEN pc' = "cal_up_loop" /\ trace' = Append(trace, "read")
             ELSE PhaseStopped(0)
       /\ (pc = "cal_down_loop" /\ sensor_ret.st = "ok")
          => IF sensor_ret.val < last_reading
             THEN pc' = "cal_down_loop" /\ trace' = Append(trace, "read")
             ELSE PhaseStopped(1)
       /\ PhaseStopped(0)
          => /\ pc = "cal_up_loop"
             /\ sensor_ret.st = "ok"
             /\ ~(sensor_ret.val > last_reading)
       /\ PhaseStopped(1)
          => /\ pc = "cal_down_loop"
             /\ sensor_ret.st = "ok"
             /\ ~(sensor_ret.val < last_reading)]_vars

\* C19 as stated: when calibrate's down phase has stopped the motor, at least
\* two readings were taken after the down command.
C19_TwoReadingsAfterDown ==
    (op = "calibrate" /\ Count(trace, "set_min_height") = 1)
    => DownPhaseReads >= 2

\* C19 amended: the down loop decides on each reading taken after the down
\* command by comparing it with the reading before it, and stops the motor
\* when it is not strictly less; the reading before the first of them is the
\* last reading of the up phase, which the step commanding down keeps, so one
\* reading after the down command is enough for stop to be issued.
C19_StopComparesAcrossDown ==
    [][/\ (pc = "cal_set_max" /\ pc' = "cal_down_loop")
          => /\ trace' = trace \o <<"down", "read">>
             /\ last_reading' = last_reading
       /\ (pc = "cal_down_loop" /\ sensor_ret.st = "ok")
          => IF sensor_ret.val < last_reading
             THEN pc' = "cal_down_loop" /\ trace' = Append(trace, "read")
             ELSE /\ pc' = "cal_set_min"
                  /\ trace' = trace \o <<"stop", "set_min_height">>]_vars

\* the down phase was stopped on its first reading, which was not below the
\* last reading of the up phase
C19_Witness ==
    /\ op = "calibrate"
    /\ pc = "cal_set_min"
    /\ DownPhaseReads = 1
    /\ UpPhaseReads >= 2
    /\ current_height >= previous_height
    /\ current_height < U8_MAX

\* C17: in a move_to_height with an in-bounds target whose first reading was
\* outside the band, the call has not returned and has issued no stop, and
\* the motor is still commanded in the chosen direction, for as long as the
\* readings stay on the first reading's side of the target: inside the loop
\* nothing but up (or down) was commanded, a stop or a successful return
\* comes only with a reading that is no longer on that side, and a constant
\* reading off the band never brings one.
C17_SameSideNeverStops ==
    MoveEntered
    => /\ pc = "mv_up_loop"
            => /\ motor = "up"
               /\ result = "none"
               /\ Count(MoveTrace, "stop") = 0
       /\ pc = "mv_down_loop"
            => /\ motor = "down"
               /\ result = "none"
               /\ Count(MoveTrace, "stop") = 0
       /\ (/\ Count(MoveTrace, "up") = 1
           /\ Count(MoveTrace, "stop") > 0 \/ result = "Ok")
            => sensor_ret.st = "ok" /\ ~(sensor_ret.val < height_cm)
       /\ (/\ Count(MoveTrace, "down") = 1
           /\ Count(MoveTrace, "stop") > 0 \/ result = "Ok")
            => sensor_ret.st = "ok" /\ ~(sensor_ret.val > height_cm)
       /\ (/\ steady.n = 1
           /\ BoundsError(height_cm) = "none"
           /\ ~InBand(steady.h, height_cm))
            => result # "Ok" /\ Count(MoveTrace, "stop") = 0

\* the desk is still going up after as many equal readings below the target
\* as the bound allows
C17_Witness ==
    /\ op = "move_to_height"
    /\ pc = "mv_up_loop"
    /\ motor = "up"
    /\ Reads(trace) = MaxReads
    /\ sensor_ret.st = "ok"
    /\ steady = [n |-> 1, h |-> sensor_ret.val]
    /\ sensor_ret.val < height_cm - 1

RECURSIVE LastMotorCommand(_)
\* the last motor command of tr, or "none" when tr holds none
LastMotorCommand(tr) ==
    IF tr = <<>> THEN "none"
    ELSE IF tr[Len(tr)] \in MotorCommands THEN tr[Len(tr)]
    ELSE LastMotorCommand(SubSeq(tr, 1, Len(tr) - 1))

\* C18: when move_to_height, move_to_standing, move_to_sitting or calibrate
\* has returned successfully, the call issued no motor command at all, or the
\* last motor command it issued is stop.
C18_SuccessLeavesMotorStopped ==
    (/\ op \in {"move_to_height", "move_to_standing", "move_to_sitting",
                "calibrate"}
     /\ pc = "idle"
     /\ result = "Ok")
    => \/ LastMotorCommand(trace) = "none"
       \/ LastMotorCommand(trace) = "stop" /\ motor = "stop"

\* move_to_sitting has returned successfully after moving the desk down
C18_Witness ==
    /\ op = "move_to_sitting"
    /\ pc = "idle"
    /\ result = "Ok"
    /\ Count(trace, "down") = 1
    /\ LastMotorCommand(trace) = "stop"
    /\ motor = "stop"

\* C20: when an echo of the burst inside set_min_height or set_max_height
\* fails, the operation returns that error, and from its entry to that return
\* min_height, min_height_echo, max_height and max_height_echo keep their
\* values.
C20_FailedBurstKeepsCalibration ==
    [][/\ (/\ sensor_op' \in {"set_min_height", "set_max_height"}
           /\ sensor_ret'.st \in {"run", "err"})
          => calibration_data' = calibration_data
       /\ (/\ sensor_op \in {"set_min_height", "set_max_height"}
           /\ sensor_ret.st = "run"
           /\ last_echo' # last_echo
           /\ last_echo'.ret.st = "err")
          => /\ sensor_ret' = last_echo'.ret
             /\ sensor_ret'.err \in Errors]_vars

\* set_max_height called from outside has failed on the third echo of its
\* burst
C20_Witness ==
    /\ op = "set_max_height"
    /\ pc = "idle"
    /\ sensor_ret.st = "err"
    /\ Len(measurement_buffer) = MEASUREMENT_BURST - 1
    /\ pulses = MEASUREMENT_BURST
    /\ calibration_data = InitialCalibration

Next ==
    \/ MeasureOne
    \/ CurrentHeightReturn
    \/ SetMinHeightReturn
    \/ SetMaxHeightReturn
    \/ CallCurrentHeight
    \/ CallSetMinHeight
    \/ CallSetMaxHeight
    \/ MoveToHeight
    \/ MoveToStanding
    \/ MoveToSitting
    \/ MvFirst
    \/ MvUpLoop
    \/ MvDownLoop
    \/ Calibrate
    \/ CalUpFirst
    \/ CalUpLoop
    \/ CalSetMax
    \/ CalDownLoop
    \/ CalSetMin

Spec == Init /\ [][Next]_vars
====
